---- MODULE Spec2Model ----
(***************************************************************************)
(* Verification model of the Kirchhoff / TSP simulator.                    *)
(*                                                                         *)
(*   src/kirchhoff_module.py  circuit editor state and calculate_circuit   *)
(*   src/tsp_algorithms.py    TSPSolver: path cost, nearest neighbour,     *)
(*                            genetic algorithm, Held-Karp, 2-opt          *)
(*   src/tsp_module.py        TSP editor state (cities, edge table)        *)
(*                                                                         *)
(* Real numbers are modelled exactly: circuit quantities are rationals     *)
(* (records [n, d] in lowest terms, d > 0), edge weights are naturals and  *)
(* float('inf') is the sentinel Inf with its own arithmetic.               *)
(***************************************************************************)
EXTENDS Integers, Sequences, FiniteSets, TLC

VARIABLES
    \* ---- KirchhoffSimulator (src/kirchhoff_module.py) ----
    nodes,          \* self.nodes: the set of node ids (the dict's keys)
    node_counter,   \* self.node_counter
    components,     \* self.components: sequence of CircuitComponent records
    ground_var,     \* the ground entry read by the last calculate_circuit
    outcome,        \* how the last calculate_circuit ended
    node_list,      \* calculate_circuit's local node_list at the solve
    G,              \* calculate_circuit's local matrix G at the solve
    I,              \* calculate_circuit's local vector I at the solve
    voltage_dict,   \* calculate_circuit's local voltage_dict (node -> volts)
    \* ---- TSPSolver (src/tsp_algorithms.py) ----
    cities,         \* self.cities: sequence of distinct city ids
    edges,          \* self.edges: function from ordered pairs to weights
    \* nearest_neighbor
    nn_pc,          \* "idle", "loop" (at the while test) or "done" (returned)
    unvisited,      \* the local set unvisited
    path,           \* the local list path; the returned path once done
    current,        \* the local current
    nn_cost,        \* the returned total_cost
    \* dynamic_programming
    dp_pc,          \* "idle" or "done" (returned)
    dp_path,        \* the returned path
    dp_cost,        \* the returned best_cost
    \* genetic_algorithm
    ga_pc,          \* "idle", "loop" (at the for test), "breed" (at the inner
                    \* while test), "done" (returned) or "raised" (exception)
    population_size, \* the argument population_size
    generations,    \* the argument generations
    population,     \* the local population
    new_population, \* the local new_population
    best_tour,      \* the local best_tour (NoTour for None)
    best_fitness,   \* the local best_fitness
    generation,     \* the loop variable generation (iterations completed)
    ga_path,        \* the returned tour
    ga_cost,        \* the returned total_cost
    ga_initial,     \* history: the initial random population
    ga_seen,        \* history: every individual whose fitness was computed
    \* crossover (the order crossover inside genetic_algorithm)
    ox_pc,          \* "idle" or "done"
    parent1,        \* the argument parent1
    parent2,        \* the argument parent2
    ox_start,       \* the local start
    ox_end,         \* the local end
    child,          \* the returned child
    \* two_opt
    two_opt_pc,     \* "idle", "while" (at the while test), "scan" (inside the
                    \* for loops) or "done" (returned)
    tour,           \* the argument tour
    improved,       \* the local improved
    to_best_tour,   \* the local best_tour; the returned tour once done
    to_best_cost,   \* the local best_cost; the returned cost once done
    to_i,           \* the loop variable i
    to_j,           \* the loop variable j
    to_returned,    \* the costs the two_opt calls made so far returned, in order
    \* calculate_path_cost called on its own
    cp_pc,          \* "idle" or "done"
    cp_path,        \* the argument path
    cp_cost,        \* the returned cost
    \* TSPSimulator (the map editor); its cities and edges are the two
    \* variables of the instance above
    city_counter,   \* self.city_counter
    city_at         \* the (x, y) of every City object of self.cities

circuitVars == <<nodes, node_counter, components, ground_var, outcome,
                 node_list, G, I, voltage_dict>>
tspVars == <<cities, edges>>
nnVars == <<unvisited, path, current, nn_pc, nn_cost>>
dpVars == <<dp_pc, dp_path, dp_cost>>
gaVars == <<ga_pc, population_size, generations, population, new_population,
            best_tour, best_fitness, generation, ga_path, ga_cost, ga_initial,
            ga_seen>>
oxVars == <<ox_pc, parent1, parent2, ox_start, ox_end, child>>
twoOptVars == <<two_opt_pc, tour, improved, to_best_tour, to_best_cost, to_i, to_j,
               to_returned>>

costVars == <<cp_pc, cp_path, cp_cost>>
editorVars == <<city_counter, city_at>>

vars == <<circuitVars, tspVars, nnVars, dpVars, gaVars, oxVars, twoOptVars,
         costVars, editorVars>>

(***************************************************************************)
(* Bounds of the model.                                                    *)
(***************************************************************************)
MaxNodes == 3
MaxComponents == 2
MaxCities == 4      \* instances have at most this many cities
MaxDirected == 3    \* instances up to this size include one-way edge tables
MaxWeight == 2      \* edge weights are 1..MaxWeight
MantissaBits == 20  \* significant bits of a float (53 in the program)
MaxCostCities == 3  \* calculate_path_cost alone: at most this many cities
MaxEditorCities == 3 \* the map editor adds at most this many cities before a clear
DistanceUnit == 100 \* lengths are held in 1/DistanceUnit of a pixel
MaxGaCities == 3    \* genetic_algorithm runs on at most this many cities
MaxPopulation == 2  \* population_size is 1..MaxPopulation
MaxGenerations == 2 \* generations is 0..MaxGenerations
MaxParentLen == 4   \* crossover parents have 2..MaxParentLen points
MaxTourLen == 5     \* two_opt runs on tours of at most this many points

(***************************************************************************)
(* Exact rational arithmetic standing for the program's float arithmetic.  *)
(***************************************************************************)
Abs(x) == IF x < 0 THEN -x ELSE x

RECURSIVE GCD(_, _)
GCD(a, b) == IF b = 0 THEN a ELSE GCD(b, a % b)

Rat(num, den) ==
    LET s == IF den < 0 THEN -1 ELSE 1
        g == GCD(Abs(num), Abs(den))
    IN  [n |-> (s * num) \div g, d |-> (s * den) \div g]

RInt(k) == [n |-> k, d |-> 1]
RZero == RInt(0)
ROne == RInt(1)
RAdd(a, b) == Rat(a.n * b.d + b.n * a.d, a.d * b.d)
RSub(a, b) == Rat(a.n * b.d - b.n * a.d, a.d * b.d)
RMul(a, b) == Rat(a.n * b.n, a.d * b.d)
RDiv(a, b) == Rat(a.n * b.d, a.d * b.n)
RAbs(a) == [n |-> Abs(a.n), d |-> a.d]

(***************************************************************************)
(* KirchhoffSimulator: editor state and calculate_circuit.                 *)
(***************************************************************************)
\* What the user may have typed in the value entry (float(value_entry.get())).
ValueEntries == {-10, 0, 5, 10}

\* What the user may have typed in the ground entry: an integer, or text that
\* int() rejects.
GroundEntries ==
    [int : {TRUE}, val : 0..MaxNodes] \cup {[int |-> FALSE, val |-> 0]}

ComponentTypes == {"resistor", "voltage_source"}

CircuitComponent(n1, n2, value, comp_type) ==
    [node1 |-> n1, node2 |-> n2, value |-> value, type |-> comp_type,
     current |-> RZero]

\* sorted(...) of a set of integers
RECURSIVE SortSet(_)
SortSet(S) ==
    IF S = {} THEN <<>>
    ELSE LET m == CHOOSE x \in S : \A y \in S : x <= y
         IN  <<m>> \o SortSet(S \ {m})

\* x in list, list.index(x)
InList(seq, x) == \E i \in 1..Len(seq) : seq[i] = x
IndexOf(seq, x) == CHOOSE i \in 1..Len(seq) : seq[i] = x /\ \A j \in 1..(i-1) : seq[j] # x

\* np.zeros((n, n)), np.zeros(n)
ZeroMatrix(n) == [i \in 1..n |-> [j \in 1..n |-> RZero]]
ZeroVector(n) == [i \in 1..n |-> RZero]

AddTo(M, i, j, x) == [M EXCEPT ![i][j] = RAdd(@, x)]

\* Faulty variant: only node1's side of the stamp; a resistor whose node1 is
\* the ground leaves G alone.
StampFromNode1(M, nl, gnd, n1, n2, conductance) ==
    IF n1 # gnd /\ InList(nl, n1)
    THEN LET idx1 == IndexOf(nl, n1)
             Ma == AddTo(M, idx1, idx1, conductance)
         IN  IF n2 # gnd /\ InList(nl, n2)
             THEN LET idx2 == IndexOf(nl, n2)
                      Mb == AddTo(Ma, idx1, idx2, RSub(RZero, conductance))
                      Mc == AddTo(Mb, idx2, idx1, RSub(RZero, conductance))
                  IN  AddTo(Mc, idx2, idx2, conductance)
             ELSE Ma
    ELSE M

\* The resistor branch of the component loop.
StampResistor(M, nl, gnd, n1, n2, conductance) ==
    LET M1 == IF n1 # gnd /\ InList(nl, n1)
              THEN LET idx1 == IndexOf(nl, n1)
                       Ma == AddTo(M, idx1, idx1, conductance)
                   IN  IF n2 # gnd /\ InList(nl, n2)
                       THEN LET idx2 == IndexOf(nl, n2)
                                Mb == AddTo(Ma, idx1, idx2, RSub(RZero, conductance))
                                Mc == AddTo(Mb, idx2, idx1, RSub(RZero, conductance))
                            IN  AddTo(Mc, idx2, idx2, conductance)
                       ELSE Ma
              ELSE M
    IN  IF n2 # gnd /\ InList(nl, n2) /\ n1 = gnd
        THEN AddTo(M1, IndexOf(nl, n2), IndexOf(nl, n2), conductance)
        ELSE M1

\* G[idx] = np.zeros(n); G[idx][idx] = 1.0
IdentityRow(n, idx) == [j \in 1..n |-> IF j = idx THEN ROne ELSE RZero]

\* The voltage_source branch of the component loop: the pair (G, I) after it.
StampVoltage(sys, nl, gnd, n1, n2, value) ==
    LET n == Len(nl)
        fix(idx) == [sys EXCEPT !.G = [@ EXCEPT ![idx] = IdentityRow(n, idx)],
                                !.I = [@ EXCEPT ![idx] = RInt(value)]]
    IN  IF n1 = gnd /\ InList(nl, n2) THEN fix(IndexOf(nl, n2))
        ELSE IF n2 = gnd /\ InList(nl, n1) THEN fix(IndexOf(nl, n1))
        ELSE sys

\* One iteration of "for comp in self.components".  1.0 / comp.value raises
\* ZeroDivisionError on a zero resistance; nothing catches it.
StampComponent(sys, nl, gnd, comp) ==
    IF comp.type = "resistor"
    THEN IF comp.value = 0
         THEN [sys EXCEPT !.raised = TRUE]
         ELSE [sys EXCEPT !.G = StampResistor(@, nl, gnd, comp.node1, comp.node2,
                                              RDiv(ROne, RInt(comp.value)))]
    ELSE StampVoltage(sys, nl, gnd, comp.node1, comp.node2, comp.value)

\* The component loop over comps[k..], in list order.
RECURSIVE ProcessComponents(_, _, _, _, _)
ProcessComponents(comps, k, nl, gnd, sys) ==
    IF k > Len(comps) \/ sys.raised THEN sys
    ELSE ProcessComponents(comps, k + 1, nl, gnd,
                           StampComponent(sys, nl, gnd, comps[k]))

\* Determinant by expansion along the first row.
Minor(M, n, col) ==
    [i \in 1..(n-1) |-> [j \in 1..(n-1) |-> M[i + 1][IF j < col THEN j ELSE j + 1]]]

RECURSIVE Det(_, _)
RECURSIVE DetSum(_, _, _)
Det(M, n) == IF n = 0 THEN ROne ELSE DetSum(M, n, 1)
DetSum(M, n, col) ==
    IF col > n THEN RZero
    ELSE LET term == RMul(M[1][col], Det(Minor(M, n, col), n - 1))
         IN  RAdd(IF col % 2 = 1 THEN term ELSE RSub(RZero, term),
                  DetSum(M, n, col + 1))

ReplaceColumn(M, n, col, b) ==
    [i \in 1..n |-> [j \in 1..n |-> IF j = col THEN b[i] ELSE M[i][j]]]

\* np.linalg.solve(G, I): LinAlgError on a singular matrix, else the unique
\* solution (Cramer's rule gives the same vector as the LU solve).
Singular(M, n) == Det(M, n) = RZero
LinalgSolve(M, b, n) ==
    [k \in 1..n |-> RDiv(Det(ReplaceColumn(M, n, k, b), n), Det(M, n))]

\* The result loop: comp.current of every resistor.
ComponentCurrent(comp, vd) ==
    IF comp.type = "resistor"
    THEN RDiv(RSub(vd[comp.node1], vd[comp.node2]), RInt(comp.value))
    ELSE comp.current

\* Faulty variant: a call that stops early still leaves a matrix behind.
CallLeavesMatrix ==
    [outcome |-> "none", node_list |-> <<0>>, G |-> <<(<<ROne>>)>>,
     I |-> <<RZero>>, voltage_dict |-> <<>>]

NoCall == [outcome |-> "none", node_list |-> <<>>, G |-> <<>>, I |-> <<>>,
           voltage_dict |-> <<>>]

\* calculate_circuit as a function of the editor state and the ground entry:
\* how it ended, its locals at that point and the component list afterwards.
calculate_circuit(nds, comps, entry) ==
    LET stop(why) == [NoCall EXCEPT !.outcome = why] @@ [components |-> comps]
    IN
    IF Cardinality(nds) < 2 \/ Len(comps) = 0 THEN stop("insufficient")
    ELSE IF ~entry.int THEN stop("invalid_ground")
    ELSE IF entry.val \notin nds THEN stop("ground_missing")
    ELSE
    LET gnd == entry.val
        nl  == SortSet(nds \ {gnd})
        n   == Len(nl)
    IN
    IF n = 0 THEN stop("no_unknown")
    ELSE
    LET sys == ProcessComponents(comps, 1, nl, gnd,
                   [G |-> ZeroMatrix(n), I |-> ZeroVector(n), raised |-> FALSE])
    IN
    IF sys.raised THEN stop("zero_division")
    ELSE IF Singular(sys.G, n)
    THEN [outcome |-> "singular", node_list |-> nl, G |-> sys.G, I |-> sys.I,
          voltage_dict |-> <<>>, components |-> comps]
    ELSE
    LET V  == LinalgSolve(sys.G, sys.I, n)
        vd == [x \in nds |-> IF x = gnd THEN RZero ELSE V[IndexOf(nl, x)]]
    IN  [outcome |-> "solved", node_list |-> nl, G |-> sys.G, I |-> sys.I,
         voltage_dict |-> vd,
         components |-> [k \in 1..Len(comps) |->
                            [comps[k] EXCEPT !.current = ComponentCurrent(comps[k], vd)]]]

(***************************************************************************)
(* TSPSolver: distances and path cost.                                     *)
(***************************************************************************)
\* float('inf'): the distance of a pair that is no key of the edge table.
\* Every other cost is a natural number (a float with an integral value).
Inf == -1

\* A float has a fixed number of significant bits: a value below
\* 2^MantissaBits is itself, a larger one is rounded to the nearest multiple
\* of its unit in the last place, a tie going to the even mantissa.
RECURSIVE UnitOf(_, _)
UnitOf(x, q) == IF x < (2 ^ MantissaBits) * q THEN q ELSE UnitOf(x, 2 * q)

RoundToFloat(x) ==
    LET q   == UnitOf(x, 1)
        lo  == (x \div q) * q
        rem == x - lo
    IN  IF 2 * rem < q THEN lo
        ELSE IF 2 * rem > q THEN lo + q
        ELSE IF (x \div q) % 2 = 0 THEN lo ELSE lo + q

\* a + b and a < b on floats that may be inf.
Plus(a, b) == IF a = Inf \/ b = Inf THEN Inf ELSE RoundToFloat(a + b)
Less(a, b) == a # Inf /\ (b = Inf \/ a < b)

\* Faulty variant: a pair that is no key of the table costs nothing.
FreeIfAbsent(city1, city2) ==
    IF <<city1, city2>> \in DOMAIN edges THEN edges[<<city1, city2>>] ELSE 0

get_distance(city1, city2) ==
    IF <<city1, city2>> \in DOMAIN edges THEN edges[<<city1, city2>>] ELSE Inf

\* The loop of calculate_path_cost from index i on (0-based), cost so far.
\* cost += ... computes the sum once; sum is that value.
RECURSIVE PathCostFrom(_, _, _)
PathCostFrom(p, i, cost) ==
    IF i >= Len(p) THEN cost
    ELSE CHOOSE total \in
             {PathCostFrom(p, i + 1, sum) :
                 sum \in {Plus(cost, get_distance(p[i + 1],
                                                  p[((i + 1) % Len(p)) + 1]))}} :
             TRUE

\* Faulty variant: the loop stops one short, leaving out the edge back to the start.
RECURSIVE OpenCostFrom(_, _, _)
OpenCostFrom(p, i, cost) ==
    IF i >= Len(p) - 1 THEN cost
    ELSE OpenCostFrom(p, i + 1, Plus(cost, get_distance(p[i + 1], p[i + 2])))

OpenPathCost(p) == OpenCostFrom(p, 0, 0)

\* Faulty variant: the loop starts at index 1, leaving out the first edge.
CostFromSecond(p) == PathCostFrom(p, 1, 0)

calculate_path_cost(p) == PathCostFrom(p, 0, 0)

(***************************************************************************)
(* The instances a solver is constructed on: the cities 1..n in list       *)
(* order, and an edge table.  The editor writes both directions of every   *)
(* edge; the solver takes any table, so small instances also come with     *)
(* one-way tables.                                                         *)
(***************************************************************************)
CityList(n) == [i \in 1..n |-> i]
Weights == 1..MaxWeight
OrderedPairs(n) == {pr \in (1..n) \X (1..n) : pr[1] # pr[2]}
UnorderedPairs(n) == {pr \in (1..n) \X (1..n) : pr[1] < pr[2]}

DirectedTables(n) ==
    UNION {[K -> Weights] : K \in SUBSET OrderedPairs(n)}

Mirror(w) ==
    [pr \in DOMAIN w \cup {<<q[2], q[1]>> : q \in DOMAIN w} |->
        IF pr \in DOMAIN w THEN w[pr] ELSE w[<<pr[2], pr[1]>>]]

SymmetricTables(n) ==
    {Mirror(w) : w \in UNION {[K -> Weights] : K \in SUBSET UnorderedPairs(n)}}

EdgeTables(n) ==
    IF n <= MaxDirected THEN DirectedTables(n) ELSE SymmetricTables(n)

\* All orderings of the elements of a set.
RECURSIVE Orderings(_)
Orderings(S) ==
    IF S = {} THEN {<<>>}
    ELSE UNION {{<<x>> \o t : t \in Orderings(S \ {x})} : x \in S}

Range(seq) == {seq[i] : i \in 1..Len(seq)}

(***************************************************************************)
(* nearest_neighbor: the inner for loop.                                   *)
(***************************************************************************)
\* The cities the scan of unvisited can leave in nearest: a city at finite
\* distance from cur that no other unvisited city beats.  The strict "<"
\* keeps the first such city met, and the iteration order of a set of City
\* objects is not fixed by the program, so any of the nearest may be first.
\* Faulty variant: the scan gives up as soon as it meets a city at infinite distance.
NearestUnlessAnyMissing(cur, unv) ==
    IF \E c \in unv : get_distance(cur, c) = Inf THEN {}
    ELSE {c \in unv : \A o \in unv : ~Less(get_distance(cur, o), get_distance(cur, c))}

NearestCandidates(cur, unv) ==
    {c \in unv : /\ Less(get_distance(cur, c), Inf)
                 /\ \A o \in unv : ~Less(get_distance(cur, o), get_distance(cur, c))}

(***************************************************************************)
(* dynamic_programming (Held-Karp).  Indices and masks are 0-based as in   *)
(* the code; cities[i + 1] is the code's self.cities[i].  NoParent stands  *)
(* for None in the parent table, and for the -1 of best_last.              *)
(***************************************************************************)
NoParent == -1
DpLimit == 20

RECURSIVE Pow2(_)
Pow2(k) == IF k = 0 THEN 1 ELSE 2 * Pow2(k - 1)

\* mask & (1 << i)
HasBit(mask, i) == (mask \div Pow2(i)) % 2 = 1

\* The innermost loop: extend state (mask, last) to next_city, next_city + 1, ...
RECURSIVE ExtendFrom(_, _, _, _, _)
ExtendFrom(t, n, mask, last, next_city) ==
    IF next_city >= n THEN t
    ELSE IF HasBit(mask, next_city) THEN ExtendFrom(t, n, mask, last, next_city + 1)
    ELSE LET next_mask == mask + Pow2(next_city)
             dist == get_distance(cities[last + 1], cities[next_city + 1])
             new_cost == Plus(t.dp[mask][last], dist)
         IN  IF Less(new_cost, t.dp[next_mask][next_city])
             THEN ExtendFrom([dp |-> [t.dp EXCEPT ![next_mask][next_city] = new_cost],
                              parent |-> [t.parent EXCEPT ![next_mask][next_city] = last]],
                             n, mask, last, next_city + 1)
             ELSE ExtendFrom(t, n, mask, last, next_city + 1)

\* The loop over last for one mask.
RECURSIVE LastFrom(_, _, _, _)
LastFrom(t, n, mask, last) ==
    IF last >= n THEN t
    ELSE IF ~HasBit(mask, last) \/ t.dp[mask][last] = Inf
         THEN LastFrom(t, n, mask, last + 1)
         ELSE LastFrom(ExtendFrom(t, n, mask, last, 0), n, mask, last + 1)

\* The loop over the masks 1 .. 2^n - 1.
RECURSIVE MaskFrom(_, _, _)
MaskFrom(t, n, mask) ==
    IF mask >= Pow2(n) THEN t
    ELSE MaskFrom(LastFrom(t, n, mask, 0), n, mask + 1)

DpTables(n) ==
    MaskFrom([dp |-> [m \in 0..(Pow2(n) - 1) |-> [i \in 0..(n - 1) |->
                         IF m = 1 /\ i = 0 THEN 0 ELSE Inf]],
              parent |-> [m \in 0..(Pow2(n) - 1) |-> [i \in 0..(n - 1) |-> NoParent]]],
             n, 1)

\* Faulty variant: the best ending city without the cost of returning to the start.
RECURSIVE BestWithoutReturn(_, _, _, _)
BestWithoutReturn(t, n, last, best) ==
    IF last >= n THEN best
    ELSE LET cost == t.dp[Pow2(n) - 1][last]
         IN  IF Less(cost, best.cost)
             THEN BestWithoutReturn(t, n, last + 1, [cost |-> cost, last |-> last])
             ELSE BestWithoutReturn(t, n, last + 1, best)

\* "Find best ending city": the pair (best_cost, best_last) after last, ...
RECURSIVE BestFrom(_, _, _, _)
BestFrom(t, n, last, best) ==
    IF last >= n THEN best
    ELSE LET cost == Plus(t.dp[Pow2(n) - 1][last],
                          get_distance(cities[last + 1], cities[1]))
         IN  IF Less(cost, best.cost)
             THEN BestFrom(t, n, last + 1, [cost |-> cost, last |-> last])
             ELSE BestFrom(t, n, last + 1, best)

\* "Reconstruct path": the list path before path.reverse().
RECURSIVE WalkBack(_, _, _, _)
WalkBack(t, mask, cur, acc) ==
    IF cur = 0 THEN Append(acc, cities[1])
    ELSE WalkBack(t, mask - Pow2(cur), t.parent[mask][cur], Append(acc, cities[cur + 1]))

\* Faulty variant: the walk from the last city back is returned as it is.
NotReversed(seq) == seq

\* path.reverse()
Reverse(seq) == [i \in 1..Len(seq) |-> seq[Len(seq) + 1 - i]]

\* dynamic_programming() for 2 <= n <= 20: the returned (path, best_cost).
HeldKarp(n) ==
    LET t == DpTables(n)
        best == BestFrom(t, n, 0, [cost |-> Inf, last |-> NoParent])
    IN  [path |-> IF best.last # NoParent
                  THEN Reverse(WalkBack(t, Pow2(n) - 1, best.last, <<>>))
                  ELSE <<>>,
         cost |-> best.cost]

(***************************************************************************)
(* genetic_algorithm: its nested functions.  random's draws are choices.   *)
(***************************************************************************)
\* best_tour = None, and the empty slots of crossover's child
NoTour == <<>>
NoCity == 0
TournamentSize == 5

\* fitness(tour) = 1 / (cost + 1); 1 / inf is 0.0
Fitness(t) ==
    LET cost == calculate_path_cost(t)
    IN  IF cost = Inf THEN RZero ELSE Rat(1, cost + 1)

RLess(a, b) == a.n * b.d < b.n * a.d

Fitnesses(pop) == [k \in 1..Len(pop) |-> Fitness(pop[k])]

\* fitnesses.index(max(fitnesses)): the first index of the greatest fitness
MaxFitnessIdx(fit) ==
    CHOOSE i \in 1..Len(fit) :
        /\ \A j \in 1..Len(fit) : ~RLess(fit[i], fit[j])
        /\ \A j \in 1..(i - 1) : RLess(fit[j], fit[i])

Min(a, b) == IF a < b THEN a ELSE b

\* select_parent: the individuals a tournament can return.  The sample is
\* any min(5, len(population)) members in any order, and max() returns the
\* first of the fittest in that order.
SelectParent(pop, fit) ==
    {pop[i] : i \in {k \in 1..Len(pop) :
        \E S \in SUBSET (1..Len(pop)) :
            /\ Cardinality(S) = Min(TournamentSize, Len(pop))
            /\ k \in S
            /\ \A j \in S : ~RLess(fit[k], fit[j])}}

\* Faulty variant: the fill loop without the reset of pointer to 0; a write past the
\* end of the child is lost.
RECURSIVE OxFillNoWrap(_, _, _, _)
OxFillNoWrap(ch, pointer, rest, size) ==
    IF rest = <<>> THEN ch
    ELSE IF Head(rest) \in Range(ch) THEN OxFillNoWrap(ch, pointer, Tail(rest), size)
    ELSE IF pointer >= size THEN OxFillNoWrap(ch, pointer + 1, Tail(rest), size)
    ELSE OxFillNoWrap([ch EXCEPT ![pointer + 1] = Head(rest)], pointer + 1,
                      Tail(rest), size)

\* The fill loop of crossover over the cities rest, writing at pointer.
RECURSIVE OxFill(_, _, _, _)
OxFill(ch, pointer, rest, size) ==
    IF rest = <<>> THEN ch
    ELSE IF Head(rest) \in Range(ch) THEN OxFill(ch, pointer, Tail(rest), size)
    ELSE LET at == IF pointer >= size THEN 0 ELSE pointer
         IN  OxFill([ch EXCEPT ![at + 1] = Head(rest)], at + 1, Tail(rest), size)

\* crossover(parent1, parent2) for the drawn 0 <= start < end < size
\* (0-based as in the code: the slice is positions start .. end - 1).
crossover(p1, p2, start, end) ==
    LET size == Len(p1)
        sliced == [k \in 1..size |-> IF start < k /\ k <= end THEN p1[k] ELSE NoCity]
    IN  OxFill(sliced, end, SubSeq(p2, end + 1, size) \o SubSeq(p2, 1, end), size)

\* sorted(random.sample(range(size), 2))
SliceBounds(size) == {b \in (0..(size - 1)) \X (0..(size - 1)) : b[1] < b[2]}

\* mutate(tour): the tour, or the tour with two positions swapped
Swap(t, i, j) == [t EXCEPT ![i] = t[j], ![j] = t[i]]
Mutate(t) == {t} \cup {Swap(t, i, j) : i, j \in 1..Len(t)}

(***************************************************************************)
(* two_opt: the candidate moves and their order.                           *)
(***************************************************************************)
\* new_tour[i:j] = reversed(new_tour[i:j]) on a copy of t (i, j 0-based)
ReverseSegment(t, i, j) ==
    [k \in 1..Len(t) |-> IF i < k /\ k <= j THEN t[i + j + 1 - k] ELSE t[k]]

\* Faulty variant: without the copies new_tour is the list the caller passed,
\* and the slice assignment writes into it.
InputAliased(input, new_tour) == new_tour

\* best_tour = tour.copy(), new_tour = best_tour.copy(): the list the caller
\* passed after new_tour[i:j] = reversed(new_tour[i:j]) on the copy.
InputAfterReversal(input, new_tour) == input

\* Faulty variant: the comparison the wrong way round.
Worsens(new_cost, best_cost) == Less(best_cost, new_cost)

\* Faulty variant: a reversal of equal cost is taken as well.
ImprovesOrTies(new_cost, best_cost) == ~Less(best_cost, new_cost)

\* new_cost < best_cost
Improves(new_cost, best_cost) == Less(new_cost, best_cost)

\* Faulty variant: an accepted move does not ask for another pass.
AcceptEndsSearch == FALSE

\* improved = True after an accepted move: the while loop runs another pass.
AcceptSetsImproved == TRUE

\* for i in range(1, len - 2): for j in range(i + 1, len): the iteration
\* that follows iteration (i, j) when no break is taken; more is FALSE when
\* both loops are exhausted.
NextIteration(i, j, len) ==
    IF j + 1 < len THEN [i |-> i, j |-> j + 1, more |-> TRUE]
    ELSE IF i + 1 < len - 2 THEN [i |-> i + 1, j |-> i + 2, more |-> TRUE]
    ELSE [i |-> i, j |-> j, more |-> FALSE]

\* The tables two_opt is run on: those of the other solvers up to MaxCities
\* points, and beyond that the complete symmetric tables.
CompleteSymmetricTables(n) == {Mirror(w) : w \in [UnorderedPairs(n) -> Weights]}
TourTables(n) ==
    IF n <= MaxCities THEN EdgeTables(n) ELSE CompleteSymmetricTables(n)

(***************************************************************************)
(* Each specification below runs one part of the program; the variables    *)
(* of the other parts keep their initial values.                           *)
(***************************************************************************)
CircuitIdle ==
    /\ nodes = {}
    /\ node_counter = 0
    /\ components = <<>>
    /\ ground_var = [int |-> TRUE, val |-> 0]
    /\ outcome = "none"
    /\ node_list = <<>>
    /\ G = <<>>
    /\ I = <<>>
    /\ voltage_dict = <<>>

NoInstance ==
    /\ cities = <<>>
    /\ edges = <<>>

NnIdle ==
    /\ nn_pc = "idle"
    /\ unvisited = {}
    /\ path = <<>>
    /\ current = 0
    /\ nn_cost = 0

DpIdle ==
    /\ dp_pc = "idle"
    /\ dp_path = <<>>
    /\ dp_cost = 0

GaIdle ==
    /\ ga_pc = "idle"
    /\ population_size = 0
    /\ generations = 0
    /\ population = <<>>
    /\ new_population = <<>>
    /\ best_tour = <<>>
    /\ best_fitness = RZero
    /\ generation = 0
    /\ ga_path = <<>>
    /\ ga_cost = 0
    /\ ga_initial = <<>>
    /\ ga_seen = {}

OxIdle ==
    /\ ox_pc = "idle"
    /\ parent1 = <<>>
    /\ parent2 = <<>>
    /\ ox_start = 0
    /\ ox_end = 0
    /\ child = <<>>

TwoOptIdle ==
    /\ two_opt_pc = "idle"
    /\ tour = <<>>
    /\ improved = FALSE
    /\ to_best_tour = <<>>
    /\ to_best_cost = 0
    /\ to_i = 0
    /\ to_j = 0
    /\ to_returned = <<>>

CostIdle ==
    /\ cp_pc = "idle"
    /\ cp_path = <<>>
    /\ cp_cost = 0

EditorIdle ==
    /\ city_counter = 0
    /\ city_at = <<>>

SolverIdle ==
    /\ NoInstance
    /\ NnIdle
    /\ DpIdle
    /\ GaIdle
    /\ OxIdle
    /\ TwoOptIdle
    /\ CostIdle
    /\ EditorIdle

\* What the actions of one specification leave alone: the other parts.
OutsideCircuit ==
    UNCHANGED <<tspVars, nnVars, dpVars, gaVars, oxVars, twoOptVars, costVars,
                editorVars>>
OutsideSolve ==
    UNCHANGED <<circuitVars, gaVars, oxVars, twoOptVars, costVars, editorVars>>
OutsideGa ==
    UNCHANGED <<circuitVars, nnVars, dpVars, oxVars, twoOptVars, costVars,
                editorVars>>
OutsideOx ==
    UNCHANGED <<circuitVars, tspVars, nnVars, dpVars, gaVars, twoOptVars,
                costVars, editorVars>>
OutsideTwoOpt ==
    UNCHANGED <<circuitVars, nnVars, dpVars, gaVars, oxVars, costVars, editorVars>>
OutsideCost ==
    UNCHANGED <<circuitVars, nnVars, dpVars, gaVars, oxVars, twoOptVars,
                editorVars>>
OutsideEditor ==
    UNCHANGED <<circuitVars, nnVars, dpVars, gaVars, oxVars, twoOptVars, costVars>>

(***************************************************************************)
(* The circuit editor and its Calculate button.                            *)
(***************************************************************************)
CircuitInit ==
    /\ CircuitIdle
    /\ SolverIdle

\* The locals of a calculate_circuit call do not outlive the next handler.
ForgetCall ==
    /\ outcome' = "none"
    /\ node_list' = <<>>
    /\ G' = <<>>
    /\ I' = <<>>
    /\ voltage_dict' = <<>>
    /\ UNCHANGED ground_var

add_node ==
    /\ node_counter < MaxNodes
    /\ nodes' = nodes \cup {node_counter}
    /\ node_counter' = node_counter + 1
    /\ UNCHANGED components
    /\ ForgetCall
    /\ OutsideCircuit

\* handle_component_click's second click on another node, in mode
\* add_resistor or add_voltage, with a numeric value entry.
add_component ==
    \E n1 \in nodes, n2 \in nodes, value \in ValueEntries, comp_type \in ComponentTypes :
        /\ n1 # n2
        /\ Len(components) < MaxComponents
        /\ components' = Append(components, CircuitComponent(n1, n2, value, comp_type))
        /\ UNCHANGED <<nodes, node_counter>>
        /\ ForgetCall
        /\ OutsideCircuit

\* Faulty variant: the node goes, its components stay.
delete_node_only ==
    \E node_id \in nodes :
        /\ nodes' = nodes \ {node_id}
        /\ UNCHANGED <<components, node_counter>>
        /\ ForgetCall
        /\ OutsideCircuit

\* A click within reach of node node_id in mode delete.
circuit_delete_at_position ==
    \E node_id \in nodes :
        /\ components' = SelectSeq(components,
                             LAMBDA c : c.node1 # node_id /\ c.node2 # node_id)
        /\ nodes' = nodes \ {node_id}
        /\ UNCHANGED node_counter
        /\ ForgetCall
        /\ OutsideCircuit

clear_circuit ==
    /\ nodes' = {}
    /\ components' = <<>>
    /\ node_counter' = 0
    /\ ForgetCall
    /\ OutsideCircuit

CalculateCircuit ==
    \E entry \in GroundEntries :
        LET r == calculate_circuit(nodes, components, entry)
        IN  /\ ground_var' = entry
            /\ outcome' = r.outcome
            /\ node_list' = r.node_list
            /\ G' = r.G
            /\ I' = r.I
            /\ voltage_dict' = r.voltage_dict
            /\ components' = r.components
            /\ UNCHANGED <<nodes, node_counter>>
            /\ OutsideCircuit

CircuitNext ==
    \/ add_node
    \/ add_component
    \/ circuit_delete_at_position
    \/ clear_circuit
    \/ CalculateCircuit

SpecCircuit == CircuitInit /\ [][CircuitNext]_vars

(***************************************************************************)
(* A TSPSolver on one instance: nearest_neighbor and dynamic_programming.  *)
(***************************************************************************)
SolveInit ==
    /\ CircuitIdle
    /\ \E n \in 0..MaxCities :
           /\ cities = CityList(n)
           /\ edges \in EdgeTables(n)
    /\ NnIdle
    /\ DpIdle
    /\ GaIdle
    /\ OxIdle
    /\ TwoOptIdle
    /\ CostIdle
    /\ EditorIdle

\* start_city=None
None == 0

\* nearest_neighbor(start_city) up to the first test of the while loop; with
\* no cities it returns ([], 0) at once.
NNCall ==
    \E start_city \in {None} \cup Range(cities) :
        LET start == IF start_city = None THEN cities[1] ELSE start_city
        IN  /\ nn_pc \in {"idle", "done"}
            /\ nn_pc' = IF cities = <<>> THEN "done" ELSE "loop"
            /\ unvisited' = IF cities = <<>> THEN {} ELSE Range(cities) \ {start}
            /\ path' = IF cities = <<>> THEN <<>> ELSE <<start>>
            /\ current' = IF cities = <<>> THEN 0 ELSE start
            /\ nn_cost' = 0
            /\ UNCHANGED <<tspVars, dpVars>>
            /\ OutsideSolve

\* Faulty variant: the scan with "dist <= min_dist".
RECURSIVE ScanOrEqualFrom(_, _, _, _, _)
ScanOrEqualFrom(cur, order, k, nearest, min_dist) ==
    IF k > Len(order) THEN nearest
    ELSE LET dist == get_distance(cur, order[k])
         IN  IF ~Less(min_dist, dist)
             THEN ScanOrEqualFrom(cur, order, k + 1, order[k], dist)
             ELSE ScanOrEqualFrom(cur, order, k + 1, nearest, min_dist)

ScanOrEqual(cur, order) == ScanOrEqualFrom(cur, order, 1, None, Inf)

\* "for city in unvisited" from the k-th city the iteration meets: nearest
\* and min_dist change when dist < min_dist.
RECURSIVE ScanFrom(_, _, _, _, _)
ScanFrom(cur, order, k, nearest, min_dist) ==
    IF k > Len(order) THEN nearest
    ELSE LET dist == get_distance(cur, order[k])
         IN  IF Less(dist, min_dist)
             THEN ScanFrom(cur, order, k + 1, order[k], dist)
             ELSE ScanFrom(cur, order, k + 1, nearest, min_dist)

\* nearest after the for loop, the set unvisited being iterated in order.
ScanNearest(cur, order) == ScanFrom(cur, order, 1, None, Inf)

\* One iteration of "while unvisited" that finds a nearest city; the order
\* in which a set is iterated is any order.
NNStep ==
    /\ nn_pc = "loop"
    /\ unvisited # {}
    /\ \E order \in Orderings(unvisited) :
           LET nearest == ScanNearest(current, order)
           IN  /\ nearest # None
               /\ path' = Append(path, nearest)
               /\ current' = nearest
               /\ unvisited' = unvisited \ {nearest}
    /\ UNCHANGED <<nn_pc, nn_cost, tspVars, dpVars>>
    /\ OutsideSolve

\* The loop ends (unvisited is empty, or nearest is None and it breaks) and
\* the call returns (path, total_cost).
NNReturn ==
    /\ nn_pc = "loop"
    /\ ~(unvisited # {} /\ NearestCandidates(current, unvisited) # {})
    /\ nn_cost' = calculate_path_cost(path)
    /\ nn_pc' = "done"
    /\ UNCHANGED <<unvisited, path, current, tspVars, dpVars>>
    /\ OutsideSolve

\* dynamic_programming() on at most DpLimit cities (above the limit the call
\* is a nearest_neighbor() call).
dynamic_programming ==
    /\ dp_pc = "idle"
    /\ Len(cities) <= DpLimit
    /\ LET r == IF Len(cities) < 2 THEN [path |-> <<>>, cost |-> 0]
                ELSE HeldKarp(Len(cities))
       IN  /\ dp_path' = r.path
           /\ dp_cost' = r.cost
    /\ dp_pc' = "done"
    /\ UNCHANGED <<tspVars, nnVars>>
    /\ OutsideSolve

SolveNext ==
    \/ NNCall
    \/ NNStep
    \/ NNReturn
    \/ dynamic_programming

SpecSolve == SolveInit /\ [][SolveNext]_vars

(***************************************************************************)
(* A genetic_algorithm call on one instance.                               *)
(***************************************************************************)
GaInit ==
    /\ CircuitIdle
    /\ \E n \in 0..MaxGaCities :
           /\ cities = CityList(n)
           /\ edges \in EdgeTables(n)
    /\ NnIdle
    /\ DpIdle
    /\ GaIdle
    /\ OxIdle
    /\ TwoOptIdle
    /\ CostIdle
    /\ EditorIdle

\* genetic_algorithm(population_size, generations, mutation_rate) up to the
\* first test of the for loop; with fewer than 2 cities it returns ([], 0).
GACall ==
    \E ps \in 1..MaxPopulation, gens \in 0..MaxGenerations :
        /\ ga_pc = "idle"
        /\ population_size' = ps
        /\ generations' = gens
        /\ ga_pc' = IF Len(cities) < 2 THEN "done" ELSE "loop"
        /\ population' \in IF Len(cities) < 2 THEN {<<>>}
                           ELSE [1..ps -> Orderings(Range(cities))]
        /\ ga_initial' = population'
        /\ best_tour' = NoTour
        /\ best_fitness' = RZero
        /\ generation' = 0
        /\ UNCHANGED <<new_population, ga_path, ga_cost, ga_seen, tspVars>>
        /\ OutsideGa

\* One pass through the top of the loop body: the fitnesses, "Track best"
\* and the elitism line.  best_tour.copy() raises AttributeError on None.
GAEvaluate ==
    /\ ga_pc = "loop"
    /\ generation < generations
    /\ LET fitnesses == Fitnesses(population)
           max_fitness_idx == MaxFitnessIdx(fitnesses)
           better == RLess(best_fitness, fitnesses[max_fitness_idx])
       IN  /\ best_fitness' = IF better THEN fitnesses[max_fitness_idx] ELSE best_fitness
           /\ best_tour' = IF better THEN population[max_fitness_idx] ELSE best_tour
    /\ ga_seen' = ga_seen \cup Range(population)
    /\ ga_pc' = IF best_tour' = NoTour THEN "AttributeError" ELSE "breed"
    /\ new_population' = IF best_tour' = NoTour THEN <<>> ELSE <<best_tour'>>
    /\ UNCHANGED <<population_size, generations, population, generation, ga_path,
                   ga_cost, ga_initial, tspVars>>
    /\ OutsideGa

\* One iteration of "while len(new_population) < population_size".
GABreed ==
    /\ ga_pc = "breed"
    /\ Len(new_population) < population_size
    /\ \E p1 \in SelectParent(population, Fitnesses(population)),
          p2 \in SelectParent(population, Fitnesses(population)),
          b \in SliceBounds(Len(cities)) :
           \E mutated \in Mutate(crossover(p1, p2, b[1], b[2])) :
               new_population' = Append(new_population, mutated)
    /\ UNCHANGED <<ga_pc, population_size, generations, population, best_tour,
                   best_fitness, generation, ga_path, ga_cost, ga_initial, ga_seen,
                   tspVars>>
    /\ OutsideGa

\* The inner while ends: population = new_population, next generation.
GANextGeneration ==
    /\ ga_pc = "breed"
    /\ Len(new_population) >= population_size
    /\ population' = new_population
    /\ generation' = generation + 1
    /\ ga_pc' = "loop"
    /\ UNCHANGED <<population_size, generations, new_population, best_tour,
                   best_fitness, ga_path, ga_cost, ga_initial, ga_seen, tspVars>>
    /\ OutsideGa

\* The for loop ends: calculate_path_cost(best_tour) and the return.
\* len(None) raises TypeError.
GAReturn ==
    /\ ga_pc = "loop"
    /\ generation >= generations
    /\ ga_pc' = IF best_tour = NoTour THEN "TypeError" ELSE "done"
    /\ ga_path' = IF best_tour = NoTour THEN <<>> ELSE best_tour
    /\ ga_cost' = IF best_tour = NoTour THEN 0 ELSE calculate_path_cost(best_tour)
    /\ UNCHANGED <<population_size, generations, population, new_population,
                   best_tour, best_fitness, generation, ga_initial, ga_seen, tspVars>>
    /\ OutsideGa

GaNext ==
    \/ GACall
    \/ GAEvaluate
    \/ GABreed
    \/ GANextGeneration
    \/ GAReturn

SpecGA == GaInit /\ [][GaNext]_vars

(***************************************************************************)
(* One call of crossover on two parents.                                   *)
(***************************************************************************)
OxInit ==
    /\ CircuitIdle
    /\ NoInstance
    /\ NnIdle
    /\ DpIdle
    /\ GaIdle
    /\ TwoOptIdle
    /\ CostIdle
    /\ EditorIdle
    /\ ox_pc = "idle"
    /\ \E size \in 2..MaxParentLen :
           /\ parent1 \in Orderings(1..size)
           /\ parent2 \in Orderings(1..size)
    /\ ox_start = 0
    /\ ox_end = 0
    /\ child = <<>>

\* crossover(parent1, parent2): the draw of start and end, and the child.
Crossover ==
    /\ ox_pc = "idle"
    /\ \E b \in SliceBounds(Len(parent1)) :
           /\ ox_start' = b[1]
           /\ ox_end' = b[2]
           /\ child' = crossover(parent1, parent2, b[1], b[2])
    /\ ox_pc' = "done"
    /\ UNCHANGED <<parent1, parent2>>
    /\ OutsideOx

OxNext == Crossover

SpecOx == OxInit /\ [][OxNext]_vars

(***************************************************************************)
(* A two_opt call on one instance.  two_opt never moves position 0 and     *)
(* does not look at which city is which, so the tours begin at cities[0];  *)
(* a tour that begins elsewhere is one of these with the cities renamed.   *)
(***************************************************************************)
TwoOptInit ==
    /\ CircuitIdle
    /\ \E n \in 0..MaxTourLen :
           /\ cities = CityList(n)
           /\ edges \in TourTables(n)
    /\ NnIdle
    /\ DpIdle
    /\ GaIdle
    /\ OxIdle
    /\ TwoOptIdle
    /\ CostIdle
    /\ EditorIdle

InputTours ==
    IF cities = <<>> THEN {<<>>}
    ELSE {<<cities[1]>> \o t : t \in Orderings(Range(cities) \ {cities[1]})}

\* two_opt(tour) up to the first test of the while loop.
TwoOptCall ==
    /\ two_opt_pc = "idle"
    /\ \E t \in InputTours :
           /\ tour' = t
           /\ to_best_tour' = t
           /\ to_best_cost' = calculate_path_cost(t)
    /\ improved' = TRUE
    /\ two_opt_pc' = "while"
    /\ UNCHANGED <<to_i, to_j, to_returned, tspVars>>
    /\ OutsideTwoOpt

\* "while improved" holds: improved = False and the for loops are entered;
\* with fewer than 4 points range(1, len - 2) is empty.
TwoOptPass ==
    /\ two_opt_pc = "while"
    /\ improved
    /\ improved' = FALSE
    /\ two_opt_pc' = IF 1 < Len(tour) - 2 THEN "scan" ELSE "while"
    /\ to_i' = IF 1 < Len(tour) - 2 THEN 1 ELSE to_i
    /\ to_j' = IF 1 < Len(tour) - 2 THEN 2 ELSE to_j
    /\ UNCHANGED <<tour, to_best_tour, to_best_cost, to_returned, tspVars>>
    /\ OutsideTwoOpt

\* Iteration (i, j) with j - i == 1: continue.
TwoOptSkip ==
    /\ two_opt_pc = "scan"
    /\ to_j - to_i = 1
    /\ LET nx == NextIteration(to_i, to_j, Len(tour))
       IN  /\ to_i' = nx.i
           /\ to_j' = nx.j
           /\ two_opt_pc' = IF nx.more THEN "scan" ELSE "while"
    /\ UNCHANGED <<tour, improved, to_best_tour, to_best_cost, to_returned, tspVars>>
    /\ OutsideTwoOpt

\* Iteration (i, j) whose reversal does not lower the cost.
TwoOptKeep ==
    /\ two_opt_pc = "scan"
    /\ to_j - to_i # 1
    /\ ~Improves(calculate_path_cost(ReverseSegment(to_best_tour, to_i, to_j)),
                 to_best_cost)
    /\ LET nx == NextIteration(to_i, to_j, Len(tour))
       IN  /\ to_i' = nx.i
           /\ to_j' = nx.j
           /\ two_opt_pc' = IF nx.more THEN "scan" ELSE "while"
    /\ tour' = InputAfterReversal(tour, ReverseSegment(to_best_tour, to_i, to_j))
    /\ UNCHANGED <<improved, to_best_tour, to_best_cost, to_returned, tspVars>>
    /\ OutsideTwoOpt

\* Iteration (i, j) whose reversal lowers the cost: it is taken and both
\* loops are left.
TwoOptAccept ==
    /\ two_opt_pc = "scan"
    /\ to_j - to_i # 1
    /\ LET new_tour == ReverseSegment(to_best_tour, to_i, to_j)
           new_cost == calculate_path_cost(new_tour)
       IN  /\ Improves(new_cost, to_best_cost)
           /\ to_best_tour' = new_tour
           /\ to_best_cost' = new_cost
           /\ tour' = InputAfterReversal(tour, new_tour)
    /\ improved' = AcceptSetsImproved
    /\ two_opt_pc' = "while"
    /\ UNCHANGED <<to_i, to_j, to_returned, tspVars>>
    /\ OutsideTwoOpt

\* "while improved" fails: return best_tour, best_cost.
TwoOptReturn ==
    /\ two_opt_pc = "while"
    /\ ~improved
    /\ two_opt_pc' = "done"
    /\ to_returned' = Append(to_returned, to_best_cost)
    /\ UNCHANGED <<tour, improved, to_best_tour, to_best_cost, to_i, to_j, tspVars>>
    /\ OutsideTwoOpt

\* two_opt(best_tour) on the tour the call before returned, up to the first
\* test of the while loop.
TwoOptCallAgain ==
    /\ two_opt_pc = "done"
    /\ Len(to_returned) = 1
    /\ tour' = to_best_tour
    /\ to_best_cost' = calculate_path_cost(to_best_tour)
    /\ improved' = TRUE
    /\ two_opt_pc' = "while"
    /\ UNCHANGED <<to_best_tour, to_i, to_j, to_returned, tspVars>>
    /\ OutsideTwoOpt

TwoOptNext ==
    \/ TwoOptCall
    \/ TwoOptCallAgain
    \/ TwoOptPass
    \/ TwoOptSkip
    \/ TwoOptKeep
    \/ TwoOptAccept
    \/ TwoOptReturn

SpecTwoOpt == TwoOptInit /\ [][TwoOptNext]_vars

(***************************************************************************)
(* Calls that run to their return.  The table sets are closed under        *)
(* renaming the cities, so every call is, up to the names, a call on the   *)
(* tour cities[0], cities[1], ... with some table of the set.              *)
(***************************************************************************)
\* two_opt(cities) up to the first test of the while loop.
TwoOptCallInOrder ==
    /\ two_opt_pc = "idle"
    /\ tour' = cities
    /\ to_best_tour' = cities
    /\ to_best_cost' = calculate_path_cost(cities)
    /\ improved' = TRUE
    /\ two_opt_pc' = "while"
    /\ UNCHANGED <<to_i, to_j, to_returned, tspVars>>
    /\ OutsideTwoOpt

TwoOptLiveNext ==
    \/ TwoOptCallInOrder
    \/ TwoOptCallAgain
    \/ TwoOptPass
    \/ TwoOptSkip
    \/ TwoOptKeep
    \/ TwoOptAccept
    \/ TwoOptReturn

\* The interpreter keeps executing the loop: weak fairness of the steps.
SpecTwoOptLive ==
    TwoOptInit /\ [][TwoOptLiveNext]_vars /\ WF_vars(TwoOptLiveNext)

(***************************************************************************)
(* calculate_path_cost called on its own.  The weights here include one    *)
(* that fills the mantissa, so that adding 1 to it is rounded.             *)
(***************************************************************************)
CostWeights == {1, 2, 2 ^ MantissaBits}

CostTables(n) ==
    {Mirror(w) : w \in UNION {[K -> CostWeights] : K \in SUBSET UnorderedPairs(n)}}
    \cup (IF n < MaxCostCities THEN DirectedTables(n) ELSE {})

\* The paths the solvers hand to calculate_path_cost: orderings of some of
\* the cities.
PartialTours == UNION {Orderings(S) : S \in SUBSET Range(cities)}

CostInit ==
    /\ CircuitIdle
    /\ \E n \in 0..MaxCostCities :
           /\ cities = CityList(n)
           /\ edges \in CostTables(n)
    /\ NnIdle
    /\ DpIdle
    /\ GaIdle
    /\ OxIdle
    /\ TwoOptIdle
    /\ CostIdle
    /\ EditorIdle

\* cost = calculate_path_cost(path)
CalculatePathCost ==
    /\ cp_pc = "idle"
    /\ \E p \in PartialTours :
           /\ cp_path' = p
           /\ cp_cost' = calculate_path_cost(p)
    /\ cp_pc' = "done"
    /\ UNCHANGED tspVars
    /\ OutsideCost

CostNext == CalculatePathCost

SpecCost == CostInit /\ [][CostNext]_vars

(***************************************************************************)
(* TSPSimulator: the map editor.  A City object is identified by the       *)
(* number city_counter + 1 at its creation (its name is C<city_counter>);  *)
(* the clicks fall on the corners of a square of side 10.                  *)
(***************************************************************************)
ClickPoints == {<<0, 0>>, <<0, 10>>, <<10, 10>>, <<10, 0>>}

\* What the user may have typed in the weight entry, as a length.
WeightEntries == {w * DistanceUnit : w \in Weights}

SquaredDistance(p, q) ==
    (p[1] - q[1]) * (p[1] - q[1]) + (p[2] - q[2]) * (p[2] - q[2])

\* math.sqrt, to the resolution of the model: the largest r with r * r <= x,
\* found between lo and hi.
RECURSIVE SqrtBetween(_, _, _)
SqrtBetween(x, lo, hi) ==
    IF hi - lo <= 1 THEN lo
    ELSE LET mid == (lo + hi) \div 2
         IN  IF mid * mid <= x THEN SqrtBetween(x, mid, hi)
             ELSE SqrtBetween(x, lo, mid)

\* Faulty variant: the distance without the square root.
distance_squared(p, q) == SquaredDistance(p, q) * DistanceUnit

\* City.distance_to
distance_to(p, q) ==
    LET x  == SquaredDistance(p, q) * DistanceUnit * DistanceUnit
        hi == (Abs(p[1] - q[1]) + Abs(p[2] - q[2])) * DistanceUnit + 1
    IN  SqrtBetween(x, 0, hi)

\* dist < 25 in find_nearest_city
ClickReach == 25

\* find_nearest_city(x, y): the first city of the list among those nearest
\* to the click and nearer than 25, or None.
find_nearest_city(p) ==
    LET d(i) == SquaredDistance(p, city_at[cities[i]])
        near == {i \in 1..Len(cities) : d(i) < ClickReach * ClickReach}
    IN  IF near = {} THEN None
        ELSE cities[CHOOSE i \in near :
                        \A j \in near : d(i) < d(j) \/ (d(i) = d(j) /\ i <= j)]

\* Faulty variant: only the direction (a, b) is written.
WithEdgesOneWay(table, a, weight) ==
    LET new == {<<a, b>> : b \in DOMAIN weight}
    IN  [pr \in DOMAIN table \cup new |->
            IF pr \in new THEN weight[pr[2]] ELSE table[pr]]

\* The edge table with both directions of every pair (a, b), b in the domain
\* of weight, set to weight[b].
WithEdges(table, a, weight) ==
    LET new == {<<a, b>> : b \in DOMAIN weight} \cup {<<b, a>> : b \in DOMAIN weight}
    IN  [pr \in DOMAIN table \cup new |->
            IF pr \in new THEN weight[IF pr[1] = a THEN pr[2] ELSE pr[1]]
            ELSE table[pr]]

\* add_city(x, y) on the editor state ed, with the auto-connect box checked
\* or not.
AddCity(ed, p, auto) ==
    LET city == ed.city_counter + 1
        at   == [c \in Range(ed.cities) \cup {city} |->
                    IF c = city THEN p ELSE ed.city_at[c]]
        dist == [other \in Range(ed.cities) |-> distance_to(p, at[other])]
    IN  [cities       |-> Append(ed.cities, city),
         city_counter |-> ed.city_counter + 1,
         city_at      |-> at,
         edges        |-> IF auto /\ Len(ed.cities) >= 1
                          THEN WithEdges(ed.edges, city, dist)
                          ELSE ed.edges]

Editor ==
    [cities |-> cities, city_counter |-> city_counter, city_at |-> city_at,
     edges |-> edges]

EditorInit ==
    /\ CircuitIdle
    /\ SolverIdle

\* A click in mode add_city.
add_city ==
    \E p \in ClickPoints, auto \in BOOLEAN :
        /\ city_counter < MaxEditorCities
        /\ LET ed == AddCity(Editor, p, auto)
           IN  /\ cities' = ed.cities
               /\ city_counter' = ed.city_counter
               /\ city_at' = ed.city_at
               /\ edges' = ed.edges
        /\ OutsideEditor

\* The two clicks of handle_edge_click in mode add_edge, on two different
\* cities, with a numeric weight entry.
handle_edge_click ==
    \E p1 \in ClickPoints, p2 \in ClickPoints, weight \in WeightEntries :
        LET selected_city == find_nearest_city(p1)
            nearest == find_nearest_city(p2)
        IN  /\ selected_city # None
            /\ nearest # None
            /\ nearest # selected_city
            /\ edges' = WithEdges(edges, selected_city,
                                  [b \in {nearest} |-> weight])
            /\ UNCHANGED <<cities, city_counter, city_at>>
            /\ OutsideEditor

\* Faulty variant: the city goes, its edges stay.
delete_city_only ==
    \E p \in ClickPoints :
        LET city == find_nearest_city(p)
        IN  /\ city # None
            /\ cities' = SelectSeq(cities, LAMBDA c : c # city)
            /\ city_at' = [c \in Range(cities) \ {city} |-> city_at[c]]
            /\ UNCHANGED <<edges, city_counter>>
            /\ OutsideEditor

\* A click in mode delete.
tsp_delete_at_position ==
    \E p \in ClickPoints :
        LET city == find_nearest_city(p)
        IN  /\ city # None
            /\ edges' = [pr \in {k \in DOMAIN edges : k[1] # city /\ k[2] # city}
                            |-> edges[pr]]
            /\ cities' = SelectSeq(cities, LAMBDA c : c # city)
            /\ city_at' = [c \in Range(cities) \ {city} |-> city_at[c]]
            /\ UNCHANGED city_counter
            /\ OutsideEditor

clear_all ==
    /\ cities' = <<>>
    /\ edges' = <<>>
    /\ city_counter' = 0
    /\ city_at' = <<>>
    /\ OutsideEditor

EditorNext ==
    \/ add_city
    \/ handle_edge_click
    \/ tsp_delete_at_position
    \/ clear_all

SpecEditor == EditorInit /\ [][EditorNext]_vars

(***************************************************************************)
(* The solvers on the map of four cities added at the four corners, in any *)
(* order, with the auto-connect box checked.                               *)
(***************************************************************************)
NoMap == [cities |-> <<>>, city_counter |-> 0, city_at |-> <<>>, edges |-> <<>>]

RECURSIVE AddAll(_, _, _)
AddAll(ed, points, k) ==
    IF k > Len(points) THEN ed
    ELSE AddAll(AddCity(ed, points[k], TRUE), points, k + 1)

SquareInit ==
    /\ CircuitIdle
    /\ \E points \in Orderings(ClickPoints) :
           LET ed == AddAll(NoMap, points, 1)
           IN  /\ cities = ed.cities
               /\ edges = ed.edges
               /\ city_counter = ed.city_counter
               /\ city_at = ed.city_at
    /\ NnIdle
    /\ DpIdle
    /\ GaIdle
    /\ OxIdle
    /\ TwoOptIdle
    /\ CostIdle

SpecSquare == SquareInit /\ [][SolveNext]_vars

(***************************************************************************)
(* Claims about calculate_circuit.                                         *)
(***************************************************************************)
Assembled == outcome \in {"solved", "singular"}

\* Component k ties the non-ground node nd to ground by a voltage source.
TiesToGround(k, nd) ==
    /\ components[k].type = "voltage_source"
    /\ nd # ground_var.val
    /\ \/ components[k].node1 = ground_var.val /\ components[k].node2 = nd
       \/ components[k].node2 = ground_var.val /\ components[k].node1 = nd

\* C1: whatever the order of the component list, a node tied to ground by a
\* voltage source has the identity row in the assembled G, the source value
\* in I and, once solved, the source value as its voltage.  Stated here for
\* circuits of positive resistances and nodes tied by one source only, so
\* that neither a negative resistance nor two sources of different values on
\* one node is what refutes it; the claim as written covers these circuits,
\* so a violation of this statement is a violation of the claim.
C1_SourceRowIsIdentity ==
    (/\ Assembled
     /\ \A j \in 1..Len(components) :
            components[j].type = "resistor" => components[j].value > 0)
    =>  \A k \in 1..Len(components), nd \in nodes :
            (/\ TiesToGround(k, nd)
             /\ \A j \in 1..Len(components) : TiesToGround(j, nd) => j = k)
            => LET idx == IndexOf(node_list, nd)
               IN  /\ G[idx] = IdentityRow(Len(node_list), idx)
                   /\ I[idx] = RInt(components[k].value)
                   /\ outcome = "solved" => voltage_dict[nd] = RInt(components[k].value)

Between(c, a, b) ==
    \/ c.node1 = a /\ c.node2 = b
    \/ c.node1 = b /\ c.node2 = a

\* The circuit of the scenario: nodes {0, 1}, ground 0, one 10 ohm resistor
\* and one 5 V source between 0 and 1; position r holds the resistor.
ScenarioCircuit(r) ==
    /\ nodes = {0, 1}
    /\ ground_var = [int |-> TRUE, val |-> 0]
    /\ Len(components) = 2
    /\ components[r].type = "resistor"
    /\ components[r].value = 10
    /\ Between(components[r], 0, 1)
    /\ components[3 - r].type = "voltage_source"
    /\ components[3 - r].value = 5
    /\ Between(components[3 - r], 0, 1)

Power(c) == RMul(RMul(RAbs(c.current), RAbs(c.current)), RInt(c.value))

\* C2: calculate_circuit on the scenario's circuit yields V(1) = 5.0, a
\* resistor current of magnitude 0.5 A and a power of 2.5 W.
C2_ScenarioValues ==
    \A r \in 1..2 :
        (ScenarioCircuit(r) /\ outcome # "none")
        => /\ outcome = "solved"
           /\ voltage_dict[1] = RInt(5)
           /\ RAbs(components[r].current) = Rat(1, 2)
           /\ Power(components[r]) = Rat(5, 2)

\* The same scenario with the resistor added before the source.
C2_ResistorFirst ==
    (ScenarioCircuit(1) /\ outcome # "none")
    => /\ outcome = "solved"
       /\ voltage_dict[1] = RInt(5)
       /\ RAbs(components[1].current) = Rat(1, 2)
       /\ Power(components[1]) = Rat(5, 2)

\* The resistors of the component list.
IsResistor(k) == components[k].type = "resistor"
HasNonPositiveResistor ==
    \E k \in 1..Len(components) : IsResistor(k) /\ components[k].value <= 0

\* C14: calculate_circuit rejects a circuit that contains a resistor of zero
\* or negative value: the call fails and produces no voltages or currents.
C14_RejectsNonPositiveResistance ==
    (outcome # "none" /\ HasNonPositiveResistor)
    => (outcome # "solved" /\ voltage_dict = <<>>)

\* What the code does with a zero resistance once the checks of the node
\* count, the component count and the ground are passed: ZeroDivisionError.
PastValidation ==
    outcome \notin {"none", "insufficient", "invalid_ground", "ground_missing",
                    "no_unknown"}
C14_ZeroResistanceRaises ==
    (PastValidation /\ \E k \in 1..Len(components) :
                           IsResistor(k) /\ components[k].value = 0)
    => outcome = "zero_division"

\* A step that is a calculate_circuit call with an integer ground entry that
\* is no node.
MissingGroundCall ==
    /\ outcome' # "none"
    /\ ground_var'.int
    /\ ground_var'.val \notin nodes'

NothingAssembled ==
    /\ node_list' = <<>>
    /\ G' = <<>>
    /\ I' = <<>>
    /\ voltage_dict' = <<>>
    /\ components' = components

\* C15 as stated: with a ground id that is no node, calculate_circuit fails
\* with the ground-does-not-exist error, assembles and solves nothing and
\* leaves every stored current as it was.
C15_MissingGroundError ==
    [][MissingGroundCall => (outcome' = "ground_missing" /\ NothingAssembled)]_vars

\* C15 amended: the same for a circuit of at least 2 nodes and 1 component.
C15_MissingGroundErrorIfSufficient ==
    [][(/\ MissingGroundCall
        /\ Cardinality(nodes) >= 2
        /\ Len(components) >= 1)
       => (outcome' = "ground_missing" /\ NothingAssembled)]_vars

\* The ground-does-not-exist error on a circuit whose resistor holds the
\* current of an earlier, successful calculation.
C15_Witness ==
    /\ outcome = "ground_missing"
    /\ Cardinality(nodes) >= 2
    /\ \E k \in 1..Len(components) : components[k].current # RZero

Isolated(nd) ==
    \A k \in 1..Len(components) :
        components[k].node1 # nd /\ components[k].node2 # nd

\* C16: when a non-ground node has no component attached, its row of the
\* assembled G is all zero and the call ends in the cannot-solve failure.
\* Stated for calls that passed the checks of the node count, the component
\* count and the ground, which end in their own failures.
C16_IsolatedNodeIsSingular ==
    \A nd \in nodes :
        (PastValidation /\ nd # ground_var.val /\ Isolated(nd))
        => /\ outcome = "singular"
           /\ G[IndexOf(node_list, nd)] = ZeroVector(Len(node_list))

\* The same for the calls that stamped every component.
C16_IsolatedNodeIsSingularIfStamped ==
    \A nd \in nodes :
        (Assembled /\ nd # ground_var.val /\ Isolated(nd))
        => /\ outcome = "singular"
           /\ G[IndexOf(node_list, nd)] = ZeroVector(Len(node_list))

EndpointsExist ==
    \A k \in 1..Len(components) :
        components[k].node1 \in nodes /\ components[k].node2 \in nodes

\* C17: every component has both endpoints in the node set after every
\* step, and a step that removes nodes removes exactly the components that
\* have a removed node as an endpoint.
C17_ComponentsFollowNodes ==
    [][/\ EndpointsExist'
       /\ LET removed == nodes \ nodes'
          IN  removed # {}
              => components' = SelectSeq(components,
                                   LAMBDA c : c.node1 \notin removed
                                              /\ c.node2 \notin removed)]_vars

\* A node has been deleted (ids are never reused) and a component between
\* the two remaining nodes is still there.
C17_Witness ==
    /\ node_counter = 3
    /\ Cardinality(nodes) = 2
    /\ Len(components) >= 1

\* The component loop of the last call ran (to its end or to an exception).
LoopRan == outcome \in {"solved", "singular", "zero_division"}

\* node_list of the last call, and G and I as the loop finds them when it
\* comes to component k.
UnknownNodes == SortSet(nodes \ {ground_var.val})
SystemBefore(k) ==
    ProcessComponents(SubSeq(components, 1, k - 1), 1, UnknownNodes,
                      ground_var.val,
                      [G |-> ZeroMatrix(Len(UnknownNodes)),
                       I |-> ZeroVector(Len(UnknownNodes)), raised |-> FALSE])
SystemAfter(k) ==
    StampComponent(SystemBefore(k), UnknownNodes, ground_var.val, components[k])

\* The iteration for component k is executed and computes a conductance.
StampedResistor(k) ==
    /\ IsResistor(k)
    /\ components[k].value # 0
    /\ ~SystemBefore(k).raised

\* How many times the conductance of a resistor between n1 and n2 is added
\* to G[a][b] (a, b indices of node_list, 1-based): once on the diagonal
\* entry of each non-ground endpoint, minus once on the two cross entries
\* when neither endpoint is the ground.
StampCount(n1, n2, a, b) ==
    LET gnd == ground_var.val
        at(nd, x) == nd # gnd /\ UnknownNodes[x] = nd
    IN  (IF at(n1, a) /\ a = b THEN 1 ELSE 0)
      + (IF at(n2, a) /\ a = b THEN 1 ELSE 0)
      - (IF at(n1, a) /\ at(n2, b) THEN 1 ELSE 0)
      - (IF at(n2, a) /\ at(n1, b) THEN 1 ELSE 0)

\* C22: a resistor of conductance g = 1/resistance adds g to G[i][i] and
\* G[j][j] and subtracts g from G[i][j] and G[j][i] when both endpoints i, j
\* are non-ground, adds g only to the diagonal entry of the non-ground
\* endpoint when exactly one endpoint is the ground, whichever of node1 and
\* node2 that is, and changes no other entry of G and no entry of I.
C22_ResistorStamp ==
    LoopRan =>
        \A k \in 1..Len(components) :
            StampedResistor(k) =>
                LET before == SystemBefore(k)
                    after  == SystemAfter(k)
                    g      == RDiv(ROne, RInt(components[k].value))
                IN  /\ after.I = before.I
                    /\ ~after.raised
                    /\ \A a, b \in 1..Len(UnknownNodes) :
                           after.G[a][b] =
                               RAdd(before.G[a][b],
                                    RMul(g, RInt(StampCount(components[k].node1,
                                                            components[k].node2,
                                                            a, b))))

\* A solved circuit with a resistor between two non-ground nodes and a
\* resistor whose node1 is the ground.
C22_Witness ==
    /\ outcome = "solved"
    /\ \E k \in 1..Len(components) :
           /\ StampedResistor(k)
           /\ components[k].node1 # ground_var.val
           /\ components[k].node2 # ground_var.val
    /\ \E k \in 1..Len(components) :
           /\ StampedResistor(k)
           /\ components[k].node1 = ground_var.val

(***************************************************************************)
(* Claims about nearest_neighbor and dynamic_programming.                  *)
(***************************************************************************)
Omitted == Range(cities) \ Range(path)
LastOfPath == path[Len(path)]
NoFiniteEdge(a, b) == get_distance(a, b) = Inf

\* C3 as written: a tour shorter than the input leaves out only points
\* that no point of the returned tour has a finite-weight edge to (so the
\* tour is complete unless the finite-weight graph is disconnected).
C3_OmittedUnreachableFromTour ==
    (nn_pc = "done" /\ Len(path) < Len(cities))
    => \A c \in Omitted : \A p \in Range(path) : NoFiniteEdge(p, c)

\* C3 amended: the returned tour has no repeated point and holds only input
\* points, and when it is shorter than the input every omitted point has no
\* finite-weight edge from the last point of the tour, where the search
\* stopped; other points of the tour may have edges to omitted points.
C3_OmittedUnreachableFromLast ==
    nn_pc = "done"
    => /\ Range(path) \subseteq Range(cities)
       /\ Cardinality(Range(path)) = Len(path)
       /\ Len(path) < Len(cities) => \A c \in Omitted : NoFiniteEdge(LastOfPath, c)

\* A short tour on a connected graph: an omitted point has an edge from an
\* earlier point of the tour.
C3_Witness ==
    /\ nn_pc = "done"
    /\ Len(path) < Len(cities)
    /\ Len(path) >= 2
    /\ \E c \in Omitted : ~NoFiniteEdge(path[1], c)

\* C4 as written: on every instance whatever its edge table, the cost
\* returned by dynamic_programming is at most the cost returned by
\* nearest_neighbor.
C4_DpAtMostNn ==
    (nn_pc = "done" /\ dp_pc = "done") => ~Less(nn_cost, dp_cost)

\* C4 amended: the same, for the instances on which nearest_neighbor
\* returns a tour that contains every point.
C4_DpAtMostCompleteNn ==
    (nn_pc = "done" /\ dp_pc = "done" /\ Len(path) = Len(cities))
    => ~Less(nn_cost, dp_cost)

\* Both ran, the greedy tour is complete and strictly worse than the optimum.
C4_Witness ==
    /\ nn_pc = "done"
    /\ dp_pc = "done"
    /\ Len(path) = Len(cities)
    /\ Len(cities) >= 3
    /\ Less(dp_cost, nn_cost)
    /\ nn_cost # Inf

\* The least of a set of costs, Inf when none is finite.
MinCost(S) ==
    IF \A c \in S : c = Inf THEN Inf
    ELSE CHOOSE c \in S : c # Inf /\ \A o \in S : ~Less(o, c)

ToursFromFirst ==
    {<<cities[1]>> \o t : t \in Orderings(Range(cities) \ {cities[1]})}

\* C5: for 2 <= n <= 20 the cost returned by dynamic_programming is the
\* least calculate_path_cost over the orderings of the cities that begin at
\* cities[0], infinity when none is finite.
C5_DpCostIsMinimum ==
    (dp_pc = "done" /\ Len(cities) >= 2)
    => dp_cost = MinCost({calculate_path_cost(t) : t \in ToursFromFirst})

\* An instance where the minimum is finite and some ordering costs more.
C5_Witness ==
    /\ dp_pc = "done"
    /\ Len(cities) >= 3
    /\ dp_cost # Inf
    /\ \E t \in ToursFromFirst : Less(dp_cost, calculate_path_cost(t))

\* The first city of an iteration order among those at the least finite
\* distance from cur, or None when every distance is infinite.
FirstNearest(cur, order) ==
    LET d(k) == get_distance(cur, order[k])
        fin  == {k \in 1..Len(order) : d(k) # Inf}
    IN  IF fin = {} THEN None
        ELSE order[CHOOSE k \in fin :
                       \A j \in fin : d(k) < d(j) \/ (d(k) = d(j) /\ k <= j)]

AllOutOfReach == \A c \in unvisited : get_distance(current, c) = Inf

\* C20: the path of nearest_neighbor starts with the start point alone and
\* never repeats a point; each point appended is unvisited and at the least
\* weight, a finite one, from the point appended before it, the first such
\* point of the iteration order winning a tie; and the search returns with
\* points left unvisited exactly when all of them are at infinite weight
\* from the current point.
C20_GreedySteps ==
    [][/\ (nn_pc # "loop" /\ nn_pc' = "loop") => Len(path') = 1
       /\ nn_pc' = "loop" =>
              /\ Cardinality(Range(path')) = Len(path')
              /\ current' = path'[Len(path')]
              /\ unvisited' = Range(cities') \ Range(path')
              /\ \A order \in Orderings(unvisited') :
                     ScanNearest(current', order) = FirstNearest(current', order)
       /\ (nn_pc = "loop" /\ nn_pc' = "loop" /\ nnVars' # nnVars) =>
              \E c \in unvisited :
                  /\ path' = Append(path, c)
                  /\ get_distance(current, c) # Inf
                  /\ \A o \in unvisited :
                         ~Less(get_distance(current, o), get_distance(current, c))
                  /\ \E order \in Orderings(unvisited) :
                         c = FirstNearest(current, order)
       /\ (nn_pc = "loop" /\ nn_pc' = "done") =>
              /\ path' = path
              /\ AllOutOfReach
       /\ (nn_pc = "loop" /\ unvisited # {} /\ AllOutOfReach /\ nnVars' # nnVars)
              => nn_pc' = "done"]_vars

\* A search that met a tie at its first step and stopped before visiting
\* every point.
C20_Witness ==
    /\ nn_pc = "done"
    /\ Len(path) >= 2
    /\ Len(path) < Len(cities)
    /\ \E c \in Range(cities) \ {path[1], path[2]} :
           get_distance(path[1], c) = get_distance(path[1], path[2])

(***************************************************************************)
(* Claims about genetic_algorithm.                                         *)
(***************************************************************************)
FullyConnected ==
    \A a \in Range(cities), b \in Range(cities) :
        a # b => <<a, b>> \in DOMAIN edges

GaRaised == ga_pc \in {"AttributeError", "TypeError"}
GaEnded == ga_pc = "done" \/ GaRaised

\* C6: with generations 0 or 1, on a fully connected instance of at least
\* 2 points, genetic_algorithm returns a tour of the initial population
\* with a finite cost equal to calculate_path_cost of that tour.
C6_ReturnsInitialIndividual ==
    (GaEnded /\ generations \in {0, 1} /\ FullyConnected /\ Len(cities) >= 2)
    => /\ ga_pc = "done"
       /\ ga_path \in Range(ga_initial)
       /\ ga_cost # Inf
       /\ ga_cost = calculate_path_cost(ga_path)

\* The part of C6 the code does satisfy: generations = 1.
C6_WithOneGeneration ==
    (GaEnded /\ generations = 1 /\ FullyConnected /\ Len(cities) >= 2)
    => /\ ga_pc = "done"
       /\ ga_path \in Range(ga_initial)
       /\ ga_cost # Inf
       /\ ga_cost = calculate_path_cost(ga_path)

BestSeen(t) ==
    /\ t \in ga_seen
    /\ \A o \in ga_seen : ~Less(calculate_path_cost(o), calculate_path_cost(t))

\* C7: in every generation, on every input of at least 2 points (also when
\* every tour has infinite cost), the first slot of the next population is
\* a copy of a best individual among all those evaluated so far.
C7_EliteIsBestSeen ==
    /\ ga_pc # "AttributeError"
    /\ ga_pc = "breed" => BestSeen(new_population[1])

\* The part of C7 the code does satisfy: whenever the elitism line is passed.
C7_EliteIsBestSeenIfAny ==
    ga_pc = "breed" => BestSeen(new_population[1])

\* C8: genetic_algorithm (on at least 2 points, generations >= 1) runs
\* exactly `generations` iterations, and returns a tour whose cost is at most
\* the cost of every individual evaluated in any generation, with the cost
\* being calculate_path_cost of the returned tour.
C8_ReturnsBestOfAllGenerations ==
    (Len(cities) >= 2 /\ generations >= 1)
    => /\ ~GaRaised
       /\ ga_pc = "done" =>
              /\ generation = generations
              /\ BestSeen(ga_path)
              /\ ga_cost = calculate_path_cost(ga_path)

\* The part of C8 the code does satisfy: whenever it returns.
C8_ReturnsBestIfItReturns ==
    (Len(cities) >= 2 /\ ga_pc = "done")
    => /\ generation = generations
       /\ BestSeen(ga_path)
       /\ ga_cost = calculate_path_cost(ga_path)

(***************************************************************************)
(* Claims about crossover.                                                 *)
(***************************************************************************)
\* The positions of the child outside the slice, in filling order: from end
\* to the last position, then from the first position up to start (0-based
\* positions end .. size - 1, 0 .. start - 1; 1-based here).
FillOrder(size, start, end) ==
    [k \in 1..(size - (end - start)) |->
        IF k <= size - end THEN end + k ELSE k - (size - end)]

\* Parent B read from position end, wrapping, without the points of the slice.
RECURSIVE Without(_, _)
Without(seq, S) ==
    IF seq = <<>> THEN <<>>
    ELSE IF Head(seq) \in S THEN Without(Tail(seq), S)
    ELSE <<Head(seq)>> \o Without(Tail(seq), S)

RotatedFrom(seq, end) ==
    [k \in 1..Len(seq) |-> seq[((end + k - 1) % Len(seq)) + 1]]

\* C9: the child of two permutations of the same n >= 2 points, for any
\* slice bounds start < end, is a permutation of those points, has parent
\* A's points at positions start .. end - 1, and has at its other positions,
\* from position end on and wrapping, parent B's remaining points in B's
\* order read from position end.
C9_OrderCrossover ==
    ox_pc = "done"
    => LET size == Len(parent1)
           slice == {parent1[k] : k \in (ox_start + 1)..ox_end}
           order == FillOrder(size, ox_start, ox_end)
           rest == Without(RotatedFrom(parent2, ox_end), slice)
       IN  /\ Len(child) = size
           /\ Range(child) = Range(parent1)
           /\ NoCity \notin Range(child)
           /\ \A k \in (ox_start + 1)..ox_end : child[k] = parent1[k]
           /\ Len(rest) = Len(order)
           /\ \A k \in 1..Len(order) : child[order[k]] = rest[k]

\* A crossover whose fill wraps around the end of the child: the slice is
\* in the middle and the parents differ.
C9_Witness ==
    /\ ox_pc = "done"
    /\ Len(parent1) >= 4
    /\ ox_start >= 1
    /\ ox_end - ox_start >= 2
    /\ parent1 # parent2
    /\ child # parent1
    /\ child # parent2

(***************************************************************************)
(* Claims about two_opt.                                                   *)
(***************************************************************************)
\* C10: two_opt returns a tour whose cost is at most the cost of the input
\* tour, and the returned cost is calculate_path_cost of the returned tour.
C10_NeverIncreasesCost ==
    two_opt_pc = "done"
    => /\ ~Less(calculate_path_cost(tour), to_best_cost)
       /\ to_best_cost = calculate_path_cost(to_best_tour)

\* A call that found an improving reversal on a tour of finite cost.
C10_Witness ==
    /\ two_opt_pc = "done"
    /\ Len(tour) >= 4
    /\ calculate_path_cost(tour) # Inf
    /\ Less(to_best_cost, calculate_path_cost(tour))

\* C11: two_opt applied to the tour a two_opt call returned returns the same
\* cost as that call, and the same tour.
C11_SecondCallSameCost ==
    Len(to_returned) = 2
    => /\ to_returned[2] = to_returned[1]
       /\ to_best_tour = tour

\* The second call has returned, and the first one had lowered the cost of
\* a tour of at least 4 points.
C11_Witness ==
    /\ Len(to_returned) = 2
    /\ two_opt_pc = "done"
    /\ Len(tour) >= 4
    /\ \E t \in InputTours : Less(to_returned[1], calculate_path_cost(t))

\* The pairs (i, j) one full scan visits on a tour of len points: i >= 1,
\* j > i, j - i # 1, j an index of the tour.
ScanPairs(len) ==
    {p \in (1..len) \X (1..len) : p[2] > p[1] /\ p[2] - p[1] # 1 /\ p[2] < len}

\* p comes before q in scan order.
ScannedBefore(p, q) == p[1] < q[1] \/ (p[1] = q[1] /\ p[2] < q[2])

\* The pairs whose reversal costs strictly less than t.
ImprovingPairs(t) ==
    {p \in ScanPairs(Len(t)) :
        Less(calculate_path_cost(ReverseSegment(t, p[1], p[2])),
             calculate_path_cost(t))}

\* The steps of two_opt: a change of best_tour is the reversal of the first
\* improving pair in scan order and asks for another pass; every pass starts
\* at the first pair; a scan of a tour without improving pair leaves
\* improved False; the call returns only on a tour without improving pair.
FirstImprovementSteps ==
    /\ (two_opt_pc = "scan" /\ to_best_tour' # to_best_tour)
       => /\ \E p \in ImprovingPairs(to_best_tour) :
                 /\ \A q \in ImprovingPairs(to_best_tour) : ~ScannedBefore(q, p)
                 /\ to_best_tour' = ReverseSegment(to_best_tour, p[1], p[2])
          /\ improved'
          /\ two_opt_pc' = "while"
    /\ (two_opt_pc = "while" /\ two_opt_pc' = "scan")
       => /\ to_i' = 1
          /\ to_j' = 2
          /\ to_best_tour' = to_best_tour
    /\ (two_opt_pc = "scan" /\ two_opt_pc' = "while"
           /\ ImprovingPairs(to_best_tour) = {})
       => ~improved'
    /\ (two_opt_pc = "scan" /\ two_opt_pc' = "while"
           /\ ImprovingPairs(to_best_tour) # {})
       => to_best_tour' # to_best_tour
    /\ (two_opt_pc = "while" /\ ~improved) => two_opt_pc' = "done"
    /\ (two_opt_pc # "done" /\ two_opt_pc' = "done")
       => ImprovingPairs(to_best_tour) = {}

\* C21: two_opt terminates on every input tour and edge table: it accepts
\* the first improving reversal in scan order, restarts the scan after each
\* accepted reversal, and stops exactly when one full scan over all pairs
\* (i, j) with i >= 1, j > i, j - i # 1 finds no reversal of strictly lower
\* cost.
C21_TerminatesAtLocalOptimum ==
    /\ [][FirstImprovementSteps]_vars
    /\ (two_opt_pc \in {"while", "scan"}) ~> (two_opt_pc = "done")

\* A call on a tour of MaxTourLen points that took a reversal and returned
\* after a scan that found none.
C21_Witness ==
    /\ two_opt_pc = "done"
    /\ Len(to_returned) = 1
    /\ Len(tour) = MaxTourLen
    /\ ImprovingPairs(tour) # {}
    /\ to_best_tour # tour
    /\ to_best_tour \notin {ReverseSegment(tour, p[1], p[2]) : p \in ScanPairs(Len(tour))}
    /\ ImprovingPairs(to_best_tour) = {}

\* s holds the elements of t, each as many times.
IsPermutationOf(s, t) ==
    /\ Len(s) = Len(t)
    /\ \A x \in Range(s) \cup Range(t) :
           Cardinality({k \in 1..Len(s) : s[k] = x})
               = Cardinality({k \in 1..Len(t) : t[k] = x})

\* C25: two_opt returns a tour that is a permutation of the input tour with
\* the same point at position 0, and it leaves the input tour list itself
\* unmodified.
C25_PermutationInputUntouched ==
    [][/\ (two_opt_pc \in {"while", "scan"}) => tour' = tour
       /\ (two_opt_pc \in {"while", "scan"} /\ two_opt_pc' = "done")
          => /\ IsPermutationOf(to_best_tour', tour)
             /\ tour # <<>> => to_best_tour'[1] = tour[1]]_vars

\* A call that returned another tour than the one it was given.
C25_Witness ==
    /\ two_opt_pc = "done"
    /\ Len(to_returned) = 1
    /\ to_best_tour # tour
    /\ IsPermutationOf(to_best_tour, tour)
    /\ \E k \in 2..Len(tour) : to_best_tour[k] # tour[k]

(***************************************************************************)
(* Claims about calculate_path_cost.                                       *)
(***************************************************************************)
\* The pairs (tour[i], tour[(i + 1) mod n]) of a tour, by 1-based position.
Leg(p, k) == <<p[k], p[(k % Len(p)) + 1]>>
NeedsAbsentEdge(p) == \E k \in 1..Len(p) : Leg(p, k) \notin DOMAIN edges

\* The sum of the weights of the first k legs, all of them keys of the table.
RECURSIVE SumOfLegs(_, _)
SumOfLegs(p, k) == IF k = 0 THEN 0 ELSE SumOfLegs(p, k - 1) + edges[Leg(p, k)]

TourCost(p) == IF NeedsAbsentEdge(p) THEN Inf ELSE SumOfLegs(p, Len(p))

\* C12: calculate_path_cost(tour) is the sum of the weights of the legs
\* (tour[i], tour[(i + 1) mod n]); a tour that needs a pair absent from the
\* edge table costs +infinity, and the computation raises nothing.
C12_CostIsSumOfLegs ==
    two_opt_pc # "idle"
    => /\ calculate_path_cost(tour) = TourCost(tour)
       /\ to_best_cost = TourCost(to_best_tour)
       /\ NeedsAbsentEdge(to_best_tour) => to_best_cost = Inf

\* A tour of at least 3 points over a table that has some edges but not all
\* the tour needs: its cost is +infinity.
C12_Witness ==
    /\ two_opt_pc = "done"
    /\ Len(to_best_tour) >= 3
    /\ DOMAIN edges # {}
    /\ NeedsAbsentEdge(to_best_tour)
    /\ to_best_cost = Inf

\* The path moved k places round the cycle.
Rotate(p, k) == [i \in 1..Len(p) |-> p[((i + k - 1) % Len(p)) + 1]]

Symmetric ==
    \A pr \in DOMAIN edges :
        /\ <<pr[2], pr[1]>> \in DOMAIN edges
        /\ edges[<<pr[2], pr[1]>>] = edges[pr]

SameCostRoundTheCycle(p, c) ==
    /\ \A k \in 0..(Len(p) - 1) : calculate_path_cost(Rotate(p, k)) = c
    /\ calculate_path_cost(Reverse(p)) = c

\* C13 as stated: on a symmetric edge table calculate_path_cost gives the
\* same value for a tour, each of its rotations and its reversal.
C13_RotationReversalSameCost ==
    (cp_pc = "done" /\ Symmetric) => SameCostRoundTheCycle(cp_path, cp_cost)

\* Every partial sum of the legs is a float: the tour needs an absent edge
\* (every sum ends at +infinity) or the whole sum is below 2^MantissaBits.
SumsAreExact(p) ==
    NeedsAbsentEdge(p) \/ SumOfLegs(p, Len(p)) < 2 ^ MantissaBits

\* C13 amended: on a symmetric edge table calculate_path_cost gives the same
\* value for a tour, each of its rotations and its reversal whenever the
\* sums of the weights are exact in floating point.
C13_SameCostWhenSumsExact ==
    (cp_pc = "done" /\ Symmetric /\ SumsAreExact(cp_path))
        => SameCostRoundTheCycle(cp_path, cp_cost)

\* A tour of 3 points with legs of different weights and a finite cost.
C13_Witness ==
    /\ cp_pc = "done"
    /\ Symmetric
    /\ Len(cp_path) = 3
    /\ ~NeedsAbsentEdge(cp_path)
    /\ SumsAreExact(cp_path)
    /\ edges[Leg(cp_path, 1)] # edges[Leg(cp_path, 2)]
    /\ cp_cost = TourCost(cp_path)

(***************************************************************************)
(* Claims about the map editor and the square scenario.                    *)
(***************************************************************************)
KeysAreCities ==
    \A pr \in DOMAIN edges : pr[1] \in Range(cities) /\ pr[2] \in Range(cities)

\* C18: every key of the edge table has both cities in the city list after
\* every step of the editor, and a step that removes cities removes them
\* from the list and removes exactly the edges incident to them.
C18_EdgesFollowCities ==
    [][/\ KeysAreCities'
       /\ LET removed == Range(cities) \ Range(cities')
          IN  removed # {}
              => /\ cities' = SelectSeq(cities, LAMBDA c : c \notin removed)
                 /\ DOMAIN edges' = {pr \in DOMAIN edges :
                                        pr[1] \notin removed /\ pr[2] \notin removed}
                 /\ \A pr \in DOMAIN edges' : edges'[pr] = edges[pr]]_vars

\* A city has been deleted (the counter is ahead of the list) and an edge
\* between the remaining cities is still there.
C18_Witness ==
    /\ city_counter = 3
    /\ Len(cities) = 2
    /\ DOMAIN edges # {}

Origin == <<0, 0>>
OnPerimeter(p) ==
    \A k \in 1..Len(p) :
        SquaredDistance(city_at[Leg(p, k)[1]], city_at[Leg(p, k)[2]]) = 100

\* C19: on the four corners of the square of side 10, all pairs connected by
\* their Euclidean distance, nearest_neighbor from (0, 0) returns a tour
\* along the perimeter with cost 40 and dynamic_programming returns cost 40.
C19_SquareCosts40 ==
    /\ (nn_pc = "done" /\ city_at[path[1]] = Origin)
       => /\ Len(path) = 4
          /\ Range(path) = Range(cities)
          /\ OnPerimeter(path)
          /\ nn_cost = 40 * DistanceUnit
    /\ dp_pc = "done" => dp_cost = 40 * DistanceUnit

C19_Witness ==
    /\ nn_pc = "done"
    /\ city_at[path[1]] = Origin
    /\ nn_cost = 40 * DistanceUnit
    /\ dp_pc = "done"
    /\ dp_cost = 40 * DistanceUnit

\* The weight the auto-connect box gives the pair pr.
AutoWeight(pr) == distance_to(city_at[pr[1]], city_at[pr[2]])

\* C24: after any sequence of add_city (auto-connect on or off), custom
\* add-edge, delete_at_position and clear_all the edge table is symmetric:
\* (a, b) is a key exactly when (b, a) is a key, and both carry the same
\* weight.
C24_EdgeTableSymmetric ==
    /\ \A a \in Range(cities), b \in Range(cities) :
           <<a, b>> \in DOMAIN edges <=> <<b, a>> \in DOMAIN edges
    /\ \A pr \in DOMAIN edges :
           /\ <<pr[2], pr[1]>> \in DOMAIN edges
           /\ edges[<<pr[2], pr[1]>>] = edges[pr]

\* Three cities of which one pair has a custom weight in place of its
\* distance, one pair its distance, and one pair no edge.
C24_Witness ==
    /\ Len(cities) = 3
    /\ \E pr \in DOMAIN edges : edges[pr] # AutoWeight(pr)
    /\ \E pr \in DOMAIN edges : edges[pr] = AutoWeight(pr)
    /\ \E a \in Range(cities), b \in Range(cities) :
           a # b /\ <<a, b>> \notin DOMAIN edges

\* Two cities are left after a deletion, joined by a custom weight.
C24_WitnessAfterDelete ==
    /\ city_counter > Len(cities)
    /\ \E pr \in DOMAIN edges : edges[pr] # AutoWeight(pr)

(***************************************************************************)
(* Claims about the path dynamic_programming returns.                      *)
(***************************************************************************)
\* The closed tours through all points: every ordering of the cities.
ClosedTours == Orderings(Range(cities))

\* C23: whenever dynamic_programming (2 <= n <= 20) returns a finite cost,
\* the returned path is a permutation of all n points that starts at
\* cities[0] and whose tour cost equals the returned cost; when no closed
\* tour through all points has finite cost it returns the empty path
\* together with infinite cost.
C23_DpPathCostsWhatIsReturned ==
    (dp_pc = "done" /\ Len(cities) >= 2 /\ Len(cities) <= DpLimit)
    => /\ dp_cost # Inf =>
              /\ Len(dp_path) = Len(cities)
              /\ Range(dp_path) = Range(cities)
              /\ dp_path[1] = cities[1]
              /\ TourCost(dp_path) = dp_cost
              /\ calculate_path_cost(dp_path) = dp_cost
       /\ (\A t \in ClosedTours : TourCost(t) = Inf) =>
              /\ dp_path = <<>>
              /\ dp_cost = Inf

\* A returned tour of MaxCities points on an instance where another closed
\* tour has another finite cost.
C23_Witness ==
    /\ dp_pc = "done"
    /\ Len(cities) = MaxCities
    /\ dp_cost # Inf
    /\ Len(dp_path) = MaxCities
    /\ \E t \in ClosedTours : TourCost(t) # Inf /\ TourCost(t) # dp_cost

\* An instance with edges whose every closed tour needs an absent pair.
C23_WitnessNoTour ==
    /\ dp_pc = "done"
    /\ Len(cities) >= 3
    /\ DOMAIN edges # {}
    /\ \A t \in ClosedTours : TourCost(t) = Inf
    /\ dp_path = <<>>

====
